---- MODULE Spec2Model ----
(***************************************************************************)
(* Model of src/src/extension.ts: the 'arduino-littlefs-upload' command    *)
(* handler (build a LittleFS image with mklittlefs, upload it with a       *)
(* python helper), the pseudo-terminal it writes to, and the two child     *)
(* processes it spawns and drains.                                         *)
(*                                                                         *)
(* JavaScript strings are modelled as sequences of string fragments, and   *)
(* '+' on strings as \o.  JavaScript numbers are <<"num", n>> or the NaN   *)
(* value <<"nan", 0>>; a child's exit code is <<"num", n>> or, when the    *)
(* child was terminated by a signal, <<"null", 0>>.                        *)
(***************************************************************************)
EXTENDS Integers, Sequences, FiniteSets, TLC

\* ------------------------------------------------------------------ bounds

\* Chunks the child processes of one run write, over all their output channels.
MaxChunks == 2
\* Chunks one output pipe (the OS pipe plus the stream's buffer) holds before
\* the writer blocks.
PipeCap == 1
\* Largest exit code a child exits with.
MaxExit == 1

\* ------------------------------------------------------- JavaScript values

NaN == <<"nan", 0>>
Null == <<"null", 0>>
Num(n) == <<"num", n>>
IsNum(v) == v[1] = "num"

\* JavaScript truthiness of a number-or-null value: 0, NaN and null are falsy.
Truthy(v) == IsNum(v) /\ v[2] # 0

\* a <= b on JavaScript numbers (false when either is NaN).
JsLeq(a, b) == IsNum(a) /\ IsNum(b) /\ a[2] <= b[2]

\* fsEnd - fsStart with the operands exchanged.
JsSubSwapped(a, b) == IF IsNum(a) /\ IsNum(b) THEN Num(b[2] - a[2]) ELSE NaN

\* a - b on JavaScript numbers.
JsSub(a, b) == IF IsNum(a) /\ IsNum(b) THEN Num(a[2] - b[2]) ELSE NaN

DecDigit == [c \in {"0", "1", "2", "3", "4", "5", "6", "7", "8", "9"} |->
               CASE c = "0" -> 0 [] c = "1" -> 1 [] c = "2" -> 2 [] c = "3" -> 3
                 [] c = "4" -> 4 [] c = "5" -> 5 [] c = "6" -> 6 [] c = "7" -> 7
                 [] c = "8" -> 8 [] c = "9" -> 9]

HexDigit == [c \in DOMAIN DecDigit \cup {"a", "b", "c", "d", "e", "f"} |->
               CASE c = "a" -> 10 [] c = "b" -> 11 [] c = "c" -> 12
                 [] c = "d" -> 13 [] c = "e" -> 14 [] c = "f" -> 15
                 [] OTHER -> DecDigit[c]]

RECURSIVE Digits(_, _, _)
\* The value of the digit string s in the given base, on top of acc.
Digits(s, table, acc) ==
    IF s = <<>> THEN acc
    ELSE Digits(Tail(s), table, acc * Cardinality(DOMAIN table) + table[Head(s)])

AllIn(s, table) == \A i \in 1..Len(s) : s[i] \in DOMAIN table

\* Number(s) for a string s given as its characters: "" is 0, an optional sign
\* and decimal digits, or 0x and hexadecimal digits; anything else is NaN.
NumberOfString(s) ==
    IF s = <<>> THEN Num(0)
    ELSE IF Len(s) > 2 /\ s[1] = "0" /\ s[2] = "x" /\ AllIn(SubSeq(s, 3, Len(s)), HexDigit)
    THEN Num(Digits(SubSeq(s, 3, Len(s)), HexDigit, 0))
    ELSE IF s[1] \in {"-", "+"} /\ Len(s) > 1 /\ AllIn(Tail(s), DecDigit)
    THEN Num((IF s[1] = "-" THEN -1 ELSE 1) * Digits(Tail(s), DecDigit, 0))
    ELSE IF AllIn(s, DecDigit) THEN Num(Digits(s, DecDigit, 0))
    ELSE NaN

DigitChar == [d \in 0..9 |->
                CASE d = 0 -> "0" [] d = 1 -> "1" [] d = 2 -> "2" [] d = 3 -> "3"
                  [] d = 4 -> "4" [] d = 5 -> "5" [] d = 6 -> "6" [] d = 7 -> "7"
                  [] d = 8 -> "8" [] d = 9 -> "9"]

RECURSIVE NatString(_)
NatString(n) == IF n < 10 THEN <<DigitChar[n]>>
                ELSE NatString(n \div 10) \o <<DigitChar[n % 10]>>

\* String(v) for a number: its decimal digits, with a leading '-' when negative.
StringOfNumber(v) ==
    IF ~IsNum(v) THEN <<"NaN">>
    ELSE IF v[2] < 0 THEN <<"-">> \o NatString(-v[2])
    ELSE NatString(v[2])

\* prefix is a prefix of s (String.prototype.startsWith).
StartsWith(s, prefix) ==
    Len(prefix) <= Len(s) /\ SubSeq(s, 1, Len(prefix)) = prefix

RECURSIVE Join(_, _)
\* Array.prototype.join(sep) over an array of strings.
Join(arr, sep) ==
    IF arr = <<>> THEN <<>>
    ELSE IF Len(arr) = 1 THEN arr[1]
    ELSE arr[1] \o sep \o Join(Tail(arr), sep)

RECURSIVE ReplaceLF(_)
\* String(chunk).replace(/\n/g, "\r\n"): every line feed becomes CR LF.
ReplaceLF(s) ==
    IF s = <<>> THEN <<>>
    ELSE (IF Head(s) = "\n" THEN <<"\r", "\n">> ELSE <<Head(s)>>) \o ReplaceLF(Tail(s))

\* --------------------------------------------------- board metadata (input)

\* A property lookup that finds nothing yields undefined.
Undefined == <<"<undefined>">>

\* Number(v) for a build property value or a menu value.
JsNumber(v) == IF v = Undefined THEN NaN ELSE NumberOfString(v)

\* buildProperties[key]: the properties are an ordered list of key/value pairs
\* with distinct keys (Object.keys order).
PropGet(props, key) ==
    LET idx == {i \in 1..Len(props) : props[i].key = key}
    IN  IF idx = {} THEN Undefined ELSE props[CHOOSE i \in idx : TRUE].val

RECURSIVE Split(_, _)
\* String.prototype.split(sep): the pieces of s between the separators.
Split(s, sep) ==
    LET at == {i \in 1..Len(s) : s[i] = sep}
    IN  IF at = {} THEN <<s>>
        ELSE LET i == CHOOSE k \in at : \A j \in at : k <= j
             IN  <<SubSeq(s, 1, i - 1)>> \o Split(SubSeq(s, i + 1, Len(s)), sep)

\* arduinoContext.fqbn.split(':')[1]
FamilySegment(fqbn) ==
    LET parts == Split(fqbn, ":")
    IN  IF Len(parts) >= 2 THEN parts[2] ELSE Undefined

\* ------------------------------------------------------------ the terminal

ClearSeq == [t |-> "clear", text |-> <<"\\x1b[2J\\x1b[3J\\x1b[;H">>]
Banner == [t |-> "banner", text |-> <<"LittleFS Filesystem Uploader\r\n\r\n">>]

ErrDataFolder == [t |-> "MissingDataFolder", text |-> <<"ERROR: No data folder found\r\n">>]
ErrBoard == [t |-> "UnsupportedBoard",
             text |-> <<"ERROR: Only Arduino-Pico RP2040 and ESP8266 supported.\r\n">>]
ErrGeometry == [t |-> "MissingFilesystemConfig",
                text |-> <<"ERROR: No filesystem specified, check flash size menu\r\n">>]
ErrNoPort == [t |-> "UnsupportedPort", text |-> <<"ERROR: No port specified, check IDE menus.\r\n">>]
ErrNotSerial == [t |-> "UnsupportedPort",
                 text |-> <<"ERROR: Only serial port upload supported at this time.\r\n">>]
ErrBuild(code) == [t |-> "BuildFailure",
                   text |-> <<"ERROR:  Mklittlefs failed, error code: ">>
                            \o StringOfNumber(code) \o <<"\r\n\r\n">>]
ErrUpload(code) == [t |-> "UploadFailure",
                    text |-> <<"ERROR:  Upload failed, error code: ">>
                             \o StringOfNumber(code) \o <<"\r\n\r\n">>]
MsgBuilding == [t |-> "stage", text |-> <<"Building LittleFS filesystem\r\n">>]
MsgUploading == [t |-> "stage", text |-> <<"\r\n\r\nUploading LittleFS filesystem\r\n">>]
MsgCompleted == [t |-> "completed", text |-> <<"\r\nCompleted upload.\r\n\r\n">>]
CmdLine(cmd, args) == [t |-> "cmdline", text |-> cmd \o <<" ">> \o Join(args, <<" ">>) \o <<"\r\n">>]
Forwarded(chunk) == [t |-> "chunk", text |-> ReplaceLF(chunk)]

\* The kinds of sink line and of popup that are error reports.
ErrorKinds == {"MissingBoardDetails", "MissingDataFolder", "UnsupportedBoard",
               "MissingFilesystemConfig", "UnsupportedPort", "SpawnFailure",
               "BuildFailure", "UploadFailure"}

\* ----------------------------------------------- handler: configuration scan

\* The handler's locals before the configOptions scan (lines 85-86, 103-107).
InitLoc == [pico |-> FALSE, esp8266 |-> FALSE,
            fsStart |-> Num(0), fsEnd |-> Num(0), page |-> Num(0), blocksize |-> Num(0),
            uploadSpeed |-> Num(115200),
            mklittlefs |-> <<>>, serialPort |-> <<>>, python3 |-> <<>>, imageFile |-> <<>>,
            buildOpts |-> <<>>, uploadOpts |-> <<>>, exitCode |-> Null]

OptSeek(pico) == IF pico THEN "flash" ELSE "eesz"
StartMarker(pico) == IF pico THEN "fs_start" ELSE "spiffs_start"
EndMarker(pico) == IF pico THEN "fs_end" ELSE "spiffs_end"

\* "menu." + optSeek + "." + itm.value + ".build."
MenuStr(pico, value) == <<"menu.", OptSeek(pico), ".">> \o value \o <<".build.">>

\* Lines 114-125 with the start kept once it is set: the start of the first
\* selected value stays, the other fields come from the last one.
SizingItemKeepsStart(props, l, itm) ==
    IF ~itm.selected THEN l
    ELSE LET menustr == MenuStr(l.pico, itm.value)
             geo == [l EXCEPT
                       !.fsStart = IF Truthy(l.fsStart) THEN l.fsStart
                                   ELSE JsNumber(PropGet(props, menustr \o <<StartMarker(l.pico)>>)),
                       !.fsEnd = JsNumber(PropGet(props, menustr \o <<EndMarker(l.pico)>>))]
         IN  IF l.pico
             THEN [geo EXCEPT !.page = Num(256), !.blocksize = Num(4096)]
             ELSE [geo EXCEPT
                     !.page = JsNumber(PropGet(props, menustr \o <<"spiffs_pagesize">>)),
                     !.blocksize = JsNumber(PropGet(props, menustr \o <<"spiffs_blocksize">>))]

\* The body of the sizing option's values.forEach for one item (lines 114-125).
SizingItem(props, l, itm) ==
    IF ~itm.selected THEN l
    ELSE LET menustr == MenuStr(l.pico, itm.value)
             geo == [l EXCEPT
                       !.fsStart = JsNumber(PropGet(props, menustr \o <<StartMarker(l.pico)>>)),
                       !.fsEnd = JsNumber(PropGet(props, menustr \o <<EndMarker(l.pico)>>))]
         IN  IF l.pico
             THEN [geo EXCEPT !.page = Num(256), !.blocksize = Num(4096)]
             ELSE IF l.esp8266
             THEN [geo EXCEPT
                     !.page = JsNumber(PropGet(props, menustr \o <<"spiffs_pagesize">>)),
                     !.blocksize = JsNumber(PropGet(props, menustr \o <<"spiffs_blocksize">>))]
             ELSE geo

\* Lines 129-131 with the assignment dropped: a selected baud value is ignored.
BaudItemIgnored(l, itm) == l

\* The body of the baud option's values.forEach for one item (lines 129-131).
BaudItem(l, itm) ==
    IF itm.selected THEN [l EXCEPT !.uploadSpeed = JsNumber(itm.value)] ELSE l

RECURSIVE ScanValues(_, _, _, _)
\* opt.values.forEach over the items, in order.
ScanValues(props, l, values, sizing) ==
    IF values = <<>> THEN l
    ELSE ScanValues(props,
                    IF sizing THEN SizingItem(props, l, Head(values))
                    ELSE BaudItem(l, Head(values)),
                    Tail(values), sizing)

RECURSIVE ScanOptions(_, _, _)
\* boardDetails.configOptions.forEach (lines 108-134).
ScanOptions(props, l, opts) ==
    IF opts = <<>> THEN l
    ELSE LET opt == Head(opts)
             next == IF opt.option = OptSeek(l.pico)
                     THEN ScanValues(props, l, opt.values, TRUE)
                     ELSE IF opt.option = "baud"
                     THEN ScanValues(props, l, opt.values, FALSE)
                     ELSE l
         IN  ScanOptions(props, next, Tail(opts))

\* Line 135 without its last test: an end at or below the start is let through.
GeometryRejectedNoOrder(l) ==
    \/ ~Truthy(l.fsStart)
    \/ ~Truthy(l.fsEnd)
    \/ ~Truthy(l.page)
    \/ ~Truthy(l.blocksize)

\* The validation of line 135: true when the geometry is rejected.
GeometryRejected(l) ==
    \/ ~Truthy(l.fsStart)
    \/ ~Truthy(l.fsEnd)
    \/ ~Truthy(l.page)
    \/ ~Truthy(l.blocksize)
    \/ JsLeq(l.fsEnd, l.fsStart)

\* ------------------------------------------------------ handler: findTool

RECURSIVE FindLastMatch(_, _)
\* Lines 33-38 without the found flag: a later matching key overrides an earlier one.
FindLastMatch(props, match) ==
    IF props = <<>> THEN Undefined
    ELSE LET later == FindLastMatch(Tail(props), match)
         IN  IF later # Undefined THEN later
             ELSE IF StartsWith(Head(props).key, match) /\ Head(props).val # Undefined
             THEN Head(props).val
             ELSE Undefined

RECURSIVE FindFirst(_, _)
FindFirst(props, match) ==
    IF props = <<>> THEN Undefined
    ELSE IF StartsWith(Head(props).key, match) /\ Head(props).val # Undefined
    THEN Head(props).val
    ELSE FindFirst(Tail(props), match)

\* findTool(ctx, match), lines 29-41.
findTool(c, match) ==
    IF c.boardDetails THEN FindFirst(c.buildProperties, match) ELSE Undefined

\* tool ? tool + "/" + name : name   (an empty string is falsy too)
WithDir(tool, name) ==
    IF tool # Undefined /\ tool # <<>> THEN tool \o <<"/">> \o name ELSE name

\* ------------------------------------------------------------------- state

VARIABLES
    ctx,          \* arduinoContext and the host: board metadata, port, data folder, platform
    writerReady,  \* line 8: set by the pseudo-terminal's open(), cleared by close()
    pc,           \* where the command handler is suspended
    loc,          \* the handler's local variables
    sink,         \* what writeEmitter has fired since the last terminal clear
    hist,         \* this run's steps, findTool calls and popups, in order
    child,        \* the two child processes, their pipes and their streams
    disk,         \* the temporary directory: the image files in it, and what tmp tracks
    other         \* a second invocation of the command that overlaps this one

vars == <<ctx, writerReady, pc, loc, sink, hist, child, disk, other>>

Channels == {"out", "err"}

\* What a child process writes in one write().
Chunks == {<<"x", "\n">>, <<"\r", "\n">>}

NoProc == [st |-> "none", cmd |-> <<>>, args |-> <<>>,
           left |-> 0, blocked |-> <<>>,
           pipe |-> [ch \in Channels |-> <<>>],
           eof |-> [ch \in Channels |-> FALSE],
           ended |-> [ch \in Channels |-> FALSE],
           wrote |-> [ch \in Channels |-> <<>>],
           fwd |-> [ch \in Channels |-> <<>>],
           code |-> Null, exitSeen |-> FALSE, closeEmitted |-> FALSE]

\* spawn(cmd, args): a running child, or one that could not be launched.
Spawned(cmd, args, launched, quota) ==
    [NoProc EXCEPT !.st = IF launched THEN "running" ELSE "failed",
                   !.cmd = cmd, !.args = args, !.left = quota]

NoHist == [steps |-> <<>>, tools |-> <<>>, popups |-> <<>>]

RECURSIVE Fire(_, _)
\* writeEmitter.fire of each item in turn; the clear sequence erases the terminal.
Fire(snk, items) ==
    IF items = <<>> THEN snk
    ELSE Fire(IF Head(items).t = "clear" THEN <<Head(items)>> ELSE Append(snk, Head(items)),
              Tail(items))

\* ---------------------------------------- handler: from readiness to the build

PrefixMklittlefs(pico) ==
    IF pico THEN <<"runtime.tools.", "pqt-", "mklittlefs">> ELSE <<"runtime.tools.", "mklittlefs">>
PrefixPython3(pico) ==
    IF pico THEN <<"runtime.tools.", "pqt-", "python3">> ELSE <<"runtime.tools.", "python3">>
PrefixPlatform == <<"runtime.platform.path">>

\* Line 79 with the test dropped: the run goes on without a data folder.
DataFolderNotChecked(c) == FALSE

\* Line 79: !fs.existsSync(dataFolder)
DataFolderMissing(c) == ~c.dataExists

\* Lines 87-99 with the default branch falling through instead of returning.
FamilyFallsThrough(l) == FALSE

\* Lines 87-99: the switch on the family segment takes its default branch.
FamilyUnsupported(l) == ~(l.pico \/ l.esp8266)

\* Line 156: arduinoContext.port?.address === undefined
PortMissing(c) == ~(c.port.present /\ c.port.hasAddress)

\* Line 162 with the protocol test dropped.
PortProtocolNotChecked(c) == FALSE

\* Line 162: arduinoContext.port?.protocol !== "serial"
PortNotSerial(c) == c.port.protocol # "serial"

\* tmp.tmpNameSync({postfix: ".littlefs.bin"}) for the random part tmpName.
ImageName(tmpName) == <<"/tmp/tmp-">> \o tmpName \o <<".littlefs.bin">>

\* A run that ends at a failed check: the error is fired after the clear sequence
\* and the banner, and nothing is spawned.
Stop(l, err, steps, tools) ==
    [pc |-> "done", loc |-> l, emit |-> <<ClearSeq, Banner, err>>,
     steps |-> steps, tools |-> tools, spawn |-> FALSE]

\* Executable suffix of line 143.
Ext(c) == IF c.platform = "win32" THEN <<".exe">> ELSE <<>>

\* Lines 167-189: python3 is looked up, the image name drawn, the build options
\* assembled and the builder spawned.
BuildStage(c, l, tmpName) ==
    LET python3Path == IF l.pico \/ l.esp8266 THEN findTool(c, PrefixPython3(l.pico))
                       ELSE Undefined
        imageFile == ImageName(tmpName)
        built == [l EXCEPT
                    !.python3 = WithDir(python3Path, <<"python3">> \o Ext(c)),
                    !.imageFile = imageFile,
                    !.buildOpts = << <<"-c">>, c.sketchPath \o <<"/data">>,
                                     <<"-p">>, StringOfNumber(l.page),
                                     <<"-b">>, StringOfNumber(l.blocksize),
                                     <<"-s">>, StringOfNumber(JsSub(l.fsEnd, l.fsStart)),
                                     imageFile >>]
    IN  [pc |-> "mkfsOut", loc |-> built,
         emit |-> <<ClearSeq, Banner, MsgBuilding, CmdLine(built.mklittlefs, built.buildOpts)>>,
         steps |-> <<"dataFolder", "family", "geometry", "findMklittlefs", "port",
                     "findPython3", "tmpName", "build">>,
         tools |-> <<PrefixMklittlefs(l.pico), PrefixPython3(l.pico)>>,
         spawn |-> TRUE]

\* Lines 155-165: the port checks, made with mklittlefs already located.
PortStage(c, l, tmpName) ==
    IF PortMissing(c)
    THEN Stop(l, ErrNoPort, <<"dataFolder", "family", "geometry", "findMklittlefs", "port">>,
              <<PrefixMklittlefs(l.pico)>>)
    ELSE IF PortNotSerial(c)
    THEN Stop([l EXCEPT !.serialPort = c.port.address], ErrNotSerial,
              <<"dataFolder", "family", "geometry", "findMklittlefs", "port">>,
              <<PrefixMklittlefs(l.pico)>>)
    ELSE BuildStage(c, [l EXCEPT !.serialPort = c.port.address], tmpName)

\* Lines 141-152: findTool for mklittlefs.
ToolStage(c, l, tmpName) ==
    PortStage(c,
              [l EXCEPT !.mklittlefs = WithDir(findTool(c, PrefixMklittlefs(l.pico)),
                                               <<"mklittlefs">> \o Ext(c))],
              tmpName)

\* Lines 135-138: the geometry validation, on the locals the scan left.
GeometryStage(c, l, tmpName) ==
    IF GeometryRejected(l)
    THEN Stop(l, ErrGeometry, <<"dataFolder", "family", "geometry">>, <<>>)
    ELSE ToolStage(c, l, tmpName)

\* Lines 85-134: the family switch, then the configOptions scan.
FamilyStage(c, l, tmpName) ==
    IF FamilyUnsupported(l)
    THEN Stop(l, ErrBoard, <<"dataFolder", "family">>, <<>>)
    ELSE GeometryStage(c, ScanOptions(c.buildProperties, l, c.configOptions), tmpName)

\* Lines 85-95: the locals the family switch sets for family segment fam.
FamilyLocals(fam) ==
    [InitLoc EXCEPT !.pico = (fam = <<"rp2040">>), !.esp8266 = (fam = <<"esp8266">>)]

\* Lines 72-189 run without suspending: the outcome of that stretch for board
\* metadata c and temporary name tmpName.  emit is what is fired, steps and tools
\* are the checks made and the findTool calls, spawn says whether line 189 is reached.
MainSegment(c, tmpName) ==
    IF DataFolderMissing(c)
    THEN Stop(InitLoc, ErrDataFolder, <<"dataFolder">>, <<>>)
    ELSE FamilyStage(c, FamilyLocals(FamilySegment(c.fqbn)), tmpName)

\* Names tmp.tmpNameSync may return.
TmpNames == {<<"1">>}

\* tmpNameSync returns a name no file has yet; it creates no file, and it does
\* not register the name with tmp's cleanup.
FreshNames(d) == {n \in TmpNames : ImageName(n) \notin d.files}

\* The temporary directory before any run: no image file, nothing tracked by tmp,
\* graceful cleanup not yet requested.
NoDisk == [files |-> {}, tracked |-> {}, graceful |-> FALSE]

\* The handler's state after lines 72-189 with outcome r.  A run that reaches
\* line 180 has called tmp.setGracefulCleanup().
Enter(h, r, launched) ==
    /\ disk' = IF r.spawn THEN [disk EXCEPT !.graceful = TRUE] ELSE disk
    /\ pc' = r.pc
    /\ loc' = r.loc
    /\ sink' = Fire(sink, r.emit)
    /\ hist' = [h EXCEPT !.steps = @ \o <<"writerReady">> \o r.steps,
                         !.tools = @ \o r.tools]
    /\ child' = [mkfs |-> IF r.spawn
                          THEN Spawned(r.loc.mklittlefs, r.loc.buildOpts, launched, ctx.quota)
                          ELSE NoProc,
                 upld |-> NoProc]

\* The handler runs lines 72-189 once the terminal is ready.
Proceed(h) ==
    \E tmpName \in FreshNames(disk), launched \in BOOLEAN :
        Enter(h, MainSegment(ctx, tmpName), launched)

PopupNoBoard == [t |-> "MissingBoardDetails",
                 text |-> <<"Board details not available. Compile the sketch once.">>]
PopupCompleted == [t |-> "completed", text |-> <<"LittleFS upload completed!">>]

\* The command is triggered (lines 57-70): the board check, then either the
\* readiness poll or, the terminal being ready, straight on.
Invoke ==
    /\ pc \in {"idle", "done"}
    /\ FreshNames(disk) # {}
    /\ UNCHANGED <<ctx, writerReady, other>>
    /\ IF ~ctx.boardDetails \/ ctx.fqbn = Undefined
       THEN /\ pc' = "done"
            /\ loc' = InitLoc
            /\ hist' = [NoHist EXCEPT !.steps = <<"boardDetails">>,
                                      !.popups = <<PopupNoBoard>>]
            /\ child' = [mkfs |-> NoProc, upld |-> NoProc]
            /\ UNCHANGED <<sink, disk>>
       ELSE IF ~writerReady
       THEN /\ pc' = "poll"
            /\ loc' = InitLoc
            /\ hist' = [NoHist EXCEPT !.steps = <<"boardDetails">>]
            /\ child' = [mkfs |-> NoProc, upld |-> NoProc]
            /\ UNCHANGED <<sink, disk>>
       ELSE Proceed([NoHist EXCEPT !.steps = <<"boardDetails">>])

\* Lines 68-70 with the loop test dropped: the run goes on at the first timer
\* tick, the terminal ready or not.
PollNoWait ==
    /\ pc = "poll"
    /\ UNCHANGED <<ctx, writerReady, other>>
    /\ Proceed(hist)

\* The 100 ms timer of line 69 fires: the loop of line 68 tests writerReady again.
Poll ==
    /\ pc = "poll"
    /\ UNCHANGED <<ctx, writerReady, other>>
    /\ IF writerReady THEN Proceed(hist)
       ELSE UNCHANGED <<pc, loc, sink, hist, child, disk>>

\* pty.open (line 21) and pty.close (line 22).
TermOpen == ~writerReady /\ writerReady' = TRUE
                         /\ UNCHANGED <<ctx, pc, loc, sink, hist, child, disk, other>>
TermClose == writerReady /\ writerReady' = FALSE
                         /\ UNCHANGED <<ctx, pc, loc, sink, hist, child, disk, other>>

\* ------------------------------------------------------ the child processes

Procs == {"mkfs", "upld"}
PcOut(p) == IF p = "mkfs" THEN "mkfsOut" ELSE "upldOut"
PcErr(p) == IF p = "mkfs" THEN "mkfsErr" ELSE "upldErr"
PcClose(p) == IF p = "mkfs" THEN "mkfsClose" ELSE "upldClose"

\* The handler's for-await loop is consuming channel ch of child p.
Iterating(p, ch) == pc = (IF ch = "out" THEN PcOut(p) ELSE PcErr(p))

Room(q, ch) == Len(q.pipe[ch]) < PipeCap

Put(q, ch, c) == [q EXCEPT !.pipe[ch] = Append(@, c), !.wrote[ch] = Append(@, c)]

\* The child writes chunk c to channel ch; with the pipe full the write blocks.
ProcWrite(p, ch, c) ==
    /\ child[p].st = "running" /\ child[p].blocked = <<>>
    /\ child[p].left > 0 /\ ~child[p].eof[ch]
    /\ child' = [child EXCEPT ![p] =
                   IF Room(@, ch) THEN [Put(@, ch, c) EXCEPT !.left = @ - 1]
                   ELSE [@ EXCEPT !.left = @ - 1, !.blocked = <<[ch |-> ch, chunk |-> c]>>]]
    /\ UNCHANGED <<ctx, writerReady, pc, loc, sink, hist, disk, other>>

\* A blocked write completes once the pipe has room.
ProcUnblock(p) ==
    /\ child[p].st = "running" /\ child[p].blocked # <<>>
    /\ Room(child[p], child[p].blocked[1].ch)
    /\ child' = [child EXCEPT ![p] =
                   [Put(@, @.blocked[1].ch, @.blocked[1].chunk) EXCEPT !.blocked = <<>>]]
    /\ UNCHANGED <<ctx, writerReady, pc, loc, sink, hist, disk, other>>

\* The child closes one of its output channels while it keeps running.
ProcCloseStream(p, ch) ==
    /\ child[p].st = "running" /\ child[p].blocked = <<>> /\ ~child[p].eof[ch]
    /\ child' = [child EXCEPT ![p].eof[ch] = TRUE]
    /\ UNCHANGED <<ctx, writerReady, pc, loc, sink, hist, disk, other>>

\* mklittlefs creates its output file, the last of its arguments.
ProcWriteImage ==
    /\ child.mkfs.st = "running" /\ child.mkfs.blocked = <<>>
    /\ child.mkfs.args[Len(child.mkfs.args)] \notin disk.files
    /\ disk' = [disk EXCEPT !.files = @ \cup {child.mkfs.args[Len(child.mkfs.args)]}]
    /\ UNCHANGED <<ctx, writerReady, pc, loc, sink, hist, child, other>>

\* The child exits with a code; its ends of both pipes close.
ProcExit(p, code) ==
    /\ child[p].st = "running" /\ child[p].blocked = <<>>
    /\ child' = [child EXCEPT ![p].st = "exited", ![p].code = Num(code),
                              ![p].eof = [ch \in Channels |-> TRUE]]
    /\ UNCHANGED <<ctx, writerReady, pc, loc, sink, hist, disk, other>>

\* The child is terminated by a signal: 'close' will carry a null code.
ProcKilled(p) ==
    /\ child[p].st = "running"
    /\ child' = [child EXCEPT ![p].st = "exited", ![p].code = Null, ![p].blocked = <<>>,
                              ![p].eof = [ch \in Channels |-> TRUE]]
    /\ UNCHANGED <<ctx, writerReady, pc, loc, sink, hist, disk, other>>

\* Node handles the child's exit: a stream nobody is consuming is resumed, which
\* discards what it holds and lets it end.
NodeExit(p) ==
    /\ child[p].st = "exited" /\ ~child[p].exitSeen
    /\ child' = [child EXCEPT ![p] =
                   LET idle == {ch \in Channels : ~Iterating(p, ch) /\ ~@.ended[ch]}
                   IN  [@ EXCEPT !.exitSeen = TRUE,
                                 !.pipe = [ch \in Channels |->
                                             IF ch \in idle THEN <<>> ELSE @[ch]],
                                 !.ended = [ch \in Channels |-> @[ch] \/ ch \in idle]]]
    /\ UNCHANGED <<ctx, writerReady, pc, loc, sink, hist, disk, other>>

\* --------------------------------------------- handler: draining and waiting

\* One iteration of a for-await loop (lines 190-195, 227-232): the next chunk of
\* the channel is fired to the terminal with its line feeds rewritten.
RunRead(p, ch) ==
    /\ Iterating(p, ch)
    /\ child[p].st \in {"running", "exited"}
    /\ child[p].pipe[ch] # <<>>
    /\ sink' = Fire(sink, <<Forwarded(Head(child[p].pipe[ch]))>>)
    /\ child' = [child EXCEPT ![p].pipe[ch] = Tail(@),
                              ![p].fwd[ch] = Append(@, Head(child[p].pipe[ch]))]
    /\ UNCHANGED <<ctx, writerReady, pc, loc, hist, disk, other>>

\* The stdout loop ends; the stderr loop starts, and is over at once when the
\* stream has already ended, in which case the 'close' listener is registered.
RunOutEnd(p) ==
    /\ Iterating(p, "out")
    /\ child[p].st \in {"running", "exited"}
    /\ child[p].pipe["out"] = <<>> /\ child[p].eof["out"]
    /\ child' = [child EXCEPT ![p].ended["out"] = TRUE]
    /\ pc' = IF child[p].ended["err"] THEN PcClose(p) ELSE PcErr(p)
    /\ UNCHANGED <<ctx, writerReady, loc, sink, hist, disk, other>>

\* The stderr loop ends; the handler registers its 'close' listener (lines 197-199).
RunErrEnd(p) ==
    /\ Iterating(p, "err")
    /\ child[p].pipe["err"] = <<>> /\ child[p].eof["err"]
    /\ child' = [child EXCEPT ![p].ended["err"] = TRUE]
    /\ pc' = PcClose(p)
    /\ UNCHANGED <<ctx, writerReady, loc, sink, hist, disk, other>>

\* Lines 201-226 for exit code `code` of mklittlefs: the failure report, or the
\* upload command line.
BuildDone(c, l, code) ==
    LET l1 == [l EXCEPT !.exitCode = code]
        script == IF l.pico THEN <<"tools/uf2conv.py">> ELSE <<"tools/upload.py">>
        path == WithDir(findTool(c, PrefixPlatform), script)
        opts == IF l.pico
                THEN << path, <<"--base">>, StringOfNumber(l.fsStart),
                        <<"--serial">>, l.serialPort, <<"--family">>, <<"RP2040">>,
                        l.imageFile >>
                ELSE << path, <<"--chip">>, <<"esp8266">>, <<"--port">>, l.serialPort,
                        <<"--baud">>, StringOfNumber(l.uploadSpeed), <<"write_flash">>,
                        StringOfNumber(l.fsStart), l.imageFile >>
        l2 == [l1 EXCEPT !.uploadOpts = opts]
    IN  IF Truthy(code)
        THEN [pc |-> "done", loc |-> l1, emit |-> <<ErrBuild(code)>>,
              steps |-> <<>>, tools |-> <<>>, spawn |-> FALSE]
        ELSE [pc |-> "upldOut", loc |-> l2,
              emit |-> <<MsgUploading, CmdLine(l2.python3, opts)>>,
              steps |-> <<"findPlatform", "upload">>, tools |-> <<PrefixPlatform>>,
              spawn |-> TRUE]

\* Lines 238-244 with the return of line 240 missing: the failure report is
\* followed by the success report.
UploadDoneNoReturn(l, code) ==
    [loc |-> [l EXCEPT !.exitCode = code],
     emit |-> IF Truthy(code) THEN <<ErrUpload(code), MsgCompleted>> ELSE <<MsgCompleted>>,
     steps |-> <<"success">>, popups |-> <<PopupCompleted>>]

\* Lines 238-244 for exit code `code` of the uploader.
UploadDone(l, code) ==
    IF Truthy(code)
    THEN [loc |-> [l EXCEPT !.exitCode = code], emit |-> <<ErrUpload(code)>>,
          steps |-> <<>>, popups |-> <<>>]
    ELSE [loc |-> [l EXCEPT !.exitCode = code], emit |-> <<MsgCompleted>>,
          steps |-> <<"success">>, popups |-> <<PopupCompleted>>]

\* Node emits 'close' on the child: it has exited and both streams have ended.
\* A registered listener resumes the handler with the exit code; with no listener
\* registered the event is gone.
NodeClose(p) ==
    /\ child[p].st = "exited" /\ child[p].exitSeen /\ ~child[p].closeEmitted
    /\ child[p].ended["out"] /\ child[p].ended["err"]
    /\ UNCHANGED <<ctx, writerReady, disk, other>>
    /\ IF pc # PcClose(p)
       THEN /\ child' = [child EXCEPT ![p].closeEmitted = TRUE]
            /\ UNCHANGED <<pc, loc, sink, hist>>
       ELSE IF p = "mkfs"
       THEN \E launched \in BOOLEAN :
              LET r == BuildDone(ctx, loc, child[p].code)
              IN  /\ pc' = r.pc
                  /\ loc' = r.loc
                  /\ sink' = Fire(sink, r.emit)
                  /\ hist' = [hist EXCEPT !.steps = @ \o r.steps, !.tools = @ \o r.tools]
                  /\ child' = [child EXCEPT
                                 ![p].closeEmitted = TRUE,
                                 !.upld = IF r.spawn
                                          THEN Spawned(r.loc.python3, r.loc.uploadOpts,
                                                       launched, child.mkfs.left)
                                          ELSE @]
       ELSE LET r == UploadDone(loc, child[p].code)
            IN  /\ pc' = "done"
                /\ loc' = r.loc
                /\ sink' = Fire(sink, r.emit)
                /\ hist' = [hist EXCEPT !.steps = @ \o r.steps, !.popups = @ \o r.popups]
                /\ child' = [child EXCEPT ![p].closeEmitted = TRUE]

\* spawn failed (ENOENT, EACCES): Node emits 'error' on the child.  The handler
\* registers no 'error' listener, so the event is thrown as an uncaught exception:
\* the streams never deliver anything and 'close' is never emitted.
NodeSpawnError(p) ==
    /\ child[p].st = "failed" /\ ~child[p].exitSeen
    /\ child' = [child EXCEPT ![p].exitSeen = TRUE]
    /\ UNCHANGED <<ctx, writerReady, pc, loc, sink, hist, disk, other>>

\* ------------------------------------------------------------------ inputs

Fqbns == { <<"vendor", ":", "rp2040", ":", "boardX">>,
           <<"vendor", ":", "esp8266", ":", "boardY">>,
           <<"vendor", ":", "esp32", ":", "boardZ">>,
           <<"vendor">> }

IsPico(fqbn) == FamilySegment(fqbn) = <<"rp2040">>

SerialPort == [present |-> TRUE, hasAddress |-> TRUE,
               address |-> <<"/dev/ttyACM0">>, protocol |-> "serial"]
Ports == { SerialPort,
           [present |-> FALSE, hasAddress |-> FALSE, address |-> <<>>, protocol |-> "none"],
           [present |-> TRUE, hasAddress |-> FALSE, address |-> <<>>, protocol |-> "serial"],
           [present |-> TRUE, hasAddress |-> TRUE,
            address |-> <<"192.168.1.7">>, protocol |-> "network"] }

\* The runtime.* build properties of an installed core, in Object.keys order.
ToolProps ==
    << [key |-> <<"runtime.tools.", "pqt-", "mklittlefs", ".path">>, val |-> <<"/pqt/mklittlefs">>],
       [key |-> <<"runtime.tools.", "pqt-", "python3", ".path">>, val |-> <<"/pqt/python3">>],
       [key |-> <<"runtime.tools.", "mklittlefs", ".path">>, val |-> <<"/esp/mklittlefs">>],
       [key |-> <<"runtime.tools.", "python3", ".path">>, val |-> <<"/esp/python3">>],
       [key |-> <<"runtime.platform.path">>, val |-> <<"/platform">>] >>

\* The menu.<option>.<value>.build.* properties of one menu value: g gives the
\* text of each property, or Undefined for a property the board does not define.
GeomProps(pico, value, g) ==
    LET all == << [key |-> MenuStr(pico, value) \o <<StartMarker(pico)>>, val |-> g.start],
                  [key |-> MenuStr(pico, value) \o <<EndMarker(pico)>>, val |-> g.end],
                  [key |-> MenuStr(pico, value) \o <<"spiffs_pagesize">>, val |-> g.page],
                  [key |-> MenuStr(pico, value) \o <<"spiffs_blocksize">>, val |-> g.block] >>
        defined(e) == e.val # Undefined
    IN  SelectSeq(all, defined)

Geom(s, e, pg, b) == [start |-> s, end |-> e, page |-> pg, block |-> b]

GeomOk == Geom(<<"0", "x", "1", "0">>, <<"3", "2">>, <<"2", "5", "6">>, <<"8", "1", "9", "2">>)

\* Geometries of the pipeline specification: valid, zero start, end <= start,
\* negative start, and no property at all.
CoreGeoms == { GeomOk,
               Geom(<<"0">>, <<"3", "2">>, <<"2", "5", "6">>, <<"8", "1", "9", "2">>),
               Geom(<<"3", "2">>, <<"1", "6">>, <<"2", "5", "6">>, <<"8", "1", "9", "2">>),
               Geom(<<"-", "1", "6">>, <<"3", "2">>, <<"2", "5", "6">>, <<"8", "1", "9", "2">>),
               Geom(Undefined, Undefined, Undefined, Undefined) }

BaudOption(selected) ==
    [option |-> "baud",
     values |-> << [value |-> <<"1", "1", "5", "2", "0", "0">>, selected |-> FALSE],
                   [value |-> <<"4", "6", "0", "8", "0", "0">>, selected |-> selected] >>]

\* A board whose sizing option offers the values "a" and "b", with the values in
\* sel marked selected; "a" has geometry ga and "b" has geometry gb.
Board(fqbn, sel, ga, gb, baud) ==
    [configOptions |->
        << [option |-> OptSeek(IsPico(fqbn)),
            values |-> << [value |-> <<"a">>, selected |-> "a" \in sel],
                          [value |-> <<"b">>, selected |-> "b" \in sel] >>],
           BaudOption(baud) >>,
     buildProperties |->
        GeomProps(IsPico(fqbn), <<"a">>, ga) \o GeomProps(IsPico(fqbn), <<"b">>, gb)
        \o ToolProps]

\* A board with no sizing option at all.
BoardNoSizing == [configOptions |-> <<BaudOption(TRUE)>>, buildProperties |-> ToolProps]

Context(bd, fqbn, board, port, dataExists, platform, quota) ==
    [boardDetails |-> bd, fqbn |-> fqbn,
     configOptions |-> board.configOptions, buildProperties |-> board.buildProperties,
     port |-> port, sketchPath |-> <<"/sketch">>, dataExists |-> dataExists,
     platform |-> platform, quota |-> quota]

\* The boards of the pipeline specification for one board identifier: no sizing
\* option, no selected value, and value "a" selected with each core geometry.
CoreBoards(fqbn) ==
    {BoardNoSizing, Board(fqbn, {}, GeomOk, GeomOk, TRUE)}
    \cup { Board(fqbn, {"a"}, g, GeomOk, TRUE) : g \in CoreGeoms }

\* The inputs of the pipeline specification.
CoreCtx ==
    UNION { { Context(bd, fqbn, board, port, de, "linux", MaxChunks) :
                bd \in BOOLEAN, de \in BOOLEAN, port \in Ports, board \in CoreBoards(fqbn) } :
            fqbn \in Fqbns \cup {Undefined} }

\* Texts a start or end property may hold: absent, "", 0, negative, positive,
\* hexadecimal, not a number.
AddrTexts == { Undefined, <<>>, <<"0">>, <<"-", "1", "6">>, <<"1", "6">>,
               <<"0", "x", "2", "0">>, <<"z">> }

\* Texts a page-size or block-size property may hold.
SizeTexts == { Undefined, <<"0">>, <<"-", "2", "5", "6">>, <<"2", "5", "6">> }

\* A baud option whose two values are selected as s1 and s2 say.
BaudChoice(s1, s2) ==
    [option |-> "baud",
     values |-> << [value |-> <<"5", "7", "6", "0", "0">>, selected |-> s1],
                   [value |-> <<"4", "6", "0", "8", "0", "0">>, selected |-> s2] >>]

\* A valid board with the given options after its sizing option.
BoardOptions(fqbn, opts) ==
    [Board(fqbn, {"a"}, GeomOk, GeomOk, TRUE) EXCEPT
        !.configOptions = <<@[1]>> \o opts]

\* A board whose sizing option occurs twice, around the baud option: value "a"
\* is selected in the first occurrence and value "b" in the second.
BoardTwice(fqbn, ga, gb) ==
    [Board(fqbn, {"a"}, ga, gb, TRUE) EXCEPT
        !.configOptions =
            << @[1], @[2],
               [option |-> OptSeek(IsPico(fqbn)),
                values |-> << [value |-> <<"b">>, selected |-> TRUE] >>] >>]

\* Two runtime.* properties for each tool, in Object.keys order, the first with
\* value v1 and the second with value v2 (Undefined: a key with no value).
Tools(v1, v2) ==
    << [key |-> <<"runtime.tools.", "pqt-", "mklittlefs", ".path">>, val |-> v1],
       [key |-> <<"runtime.tools.", "pqt-", "mklittlefs", "-2", ".path">>, val |-> v2],
       [key |-> <<"runtime.tools.", "pqt-", "python3", ".path">>, val |-> v1],
       [key |-> <<"runtime.tools.", "pqt-", "python3", "-2", ".path">>, val |-> v2],
       [key |-> <<"runtime.tools.", "mklittlefs", ".path">>, val |-> v1],
       [key |-> <<"runtime.tools.", "mklittlefs", "-2", ".path">>, val |-> v2],
       [key |-> <<"runtime.tools.", "python3", ".path">>, val |-> v1],
       [key |-> <<"runtime.tools.", "python3", "-2", ".path">>, val |-> v2],
       [key |-> <<"runtime.platform.path">>, val |-> v1],
       [key |-> <<"runtime.platform.path", ".2">>, val |-> v2] >>

\* The tool properties of the configuration specification: none at all, and two
\* keys per tool whose first value is missing, empty or a directory.
ToolVariants ==
    {<<>>}
    \cup { Tools(v1, v2) : v1 \in {Undefined, <<>>, <<"/first">>},
                           v2 \in {Undefined, <<"/second">>} }

\* A valid board with the given runtime.* properties.
BoardTools(fqbn, tools) ==
    [Board(fqbn, {"a"}, GeomOk, GeomOk, TRUE) EXCEPT
        !.buildProperties = GeomProps(IsPico(fqbn), <<"a">>, GeomOk) \o tools]

\* The boards of the configuration specification: value "a" selected with every
\* combination of property texts, every selection of "a" and "b" over the
\* core geometries, the sizing option twice, every selection of the baud values,
\* and no baud option.
CfgBoards(fqbn) ==
    {BoardNoSizing}
    \cup { Board(fqbn, {"a"}, Geom(st, en, pg, bl), GeomOk, TRUE) :
             st \in AddrTexts, en \in AddrTexts, pg \in SizeTexts, bl \in SizeTexts }
    \cup { Board(fqbn, sel, ga, gb, TRUE) :
             sel \in SUBSET {"a", "b"}, ga \in CoreGeoms, gb \in CoreGeoms }
    \cup { BoardTwice(fqbn, ga, gb) : ga \in CoreGeoms, gb \in CoreGeoms }
    \cup { BoardOptions(fqbn, <<BaudChoice(s1, s2)>>) : s1 \in BOOLEAN, s2 \in BOOLEAN }
    \cup { BoardOptions(fqbn, <<>>) }

\* The inputs of the configuration specification: every board above with children
\* that write nothing, every tool variant on both kinds of platform, and the
\* pipeline inputs with a valid board.
CfgCtx ==
    UNION { { Context(TRUE, fqbn, board, SerialPort, TRUE, "linux", 0) :
                board \in CfgBoards(fqbn) } : fqbn \in Fqbns }
    \cup UNION { { Context(TRUE, fqbn, BoardTools(fqbn, tools), SerialPort, TRUE, os, 0) :
                     tools \in ToolVariants, os \in {"linux", "win32"} } : fqbn \in Fqbns }
    \cup { c \in CoreCtx : c.configOptions = Board(c.fqbn, {"a"}, GeomOk, GeomOk, TRUE).configOptions
                           /\ c.buildProperties
                                = Board(c.fqbn, {"a"}, GeomOk, GeomOk, TRUE).buildProperties }

\* ------------------------------------------------------------ specification

NoChildren == [mkfs |-> NoProc, upld |-> NoProc]

\* No second invocation yet.
NoOther == [pc |-> "none", emitted |-> <<>>, spawned |-> FALSE]

Init ==
    /\ ctx \in CoreCtx
    /\ writerReady = FALSE
    /\ pc = "idle"
    /\ loc = InitLoc
    /\ sink = <<>>
    /\ hist = NoHist
    /\ child = NoChildren
    /\ disk = NoDisk
    /\ other = NoOther

ProcNext ==
    \/ ProcWriteImage
    \/ \E p \in Procs :
        \/ \E ch \in Channels, c \in Chunks : ProcWrite(p, ch, c)
        \/ ProcUnblock(p)
        \/ \E ch \in Channels : ProcCloseStream(p, ch)
        \/ \E code \in 0..MaxExit : ProcExit(p, code)
        \/ ProcKilled(p)

NodeNext ==
    \E p \in Procs :
        \/ NodeExit(p)
        \/ NodeSpawnError(p)
        \/ NodeClose(p)

RunNext ==
    \/ Poll
    \/ \E p \in Procs :
        \/ \E ch \in Channels : RunRead(p, ch)
        \/ RunOutEnd(p)
        \/ RunErrEnd(p)

Next ==
    \/ Invoke
    \/ TermOpen
    \/ TermClose
    \/ RunNext
    \/ ProcNext
    \/ NodeNext

Spec == Init /\ [][Next]_vars

InitCfg ==
    /\ ctx \in CfgCtx
    /\ writerReady = FALSE
    /\ pc = "idle"
    /\ loc = InitLoc
    /\ sink = <<>>
    /\ hist = NoHist
    /\ child = NoChildren
    /\ disk = NoDisk
    /\ other = NoOther

\* The same program over the configuration inputs.
SpecCfg == InitCfg /\ [][Next]_vars

\* -------------------------------------------------- what a run has done

\* Child p was spawned (successfully or not) in this run.
HasSpawned(p) == child[p].st # "none"

\* The run is past its readiness wait: the terminal holds this run's output only.
PastReady == \E i \in DOMAIN hist.steps : hist.steps[i] = "writerReady"

\* What this run has fired to the terminal.
RunOutput == IF PastReady THEN sink ELSE <<>>

IsError(item) == item.t \in ErrorKinds
Kind(items) == [i \in DOMAIN items |-> items[i].t]

\* The kinds of the error messages this run has shown, popups first.
RunErrors == Kind(SelectSeq(hist.popups, IsError)) \o Kind(SelectSeq(RunOutput, IsError))

Fired(item) == \E i \in DOMAIN RunOutput : RunOutput[i] = item

\* The handler was resumed by the 'close' event of child p.
Resumed(p) == child[p].closeEmitted

\* ------------------------------------------------------------------ claims

\* C1: a builder that exits with a non-zero code makes the run report
\* BuildFailure with that code and never spawn the uploader; the uploader is
\* spawned only after the builder of the same run has closed with exit code 0.
C1_UploadOnlyAfterCleanBuild ==
    /\ (Resumed("mkfs") /\ IsNum(child.mkfs.code) /\ child.mkfs.code[2] # 0)
          => (Fired(ErrBuild(child.mkfs.code)) /\ ~HasSpawned("upld"))
    /\ HasSpawned("upld") => (Resumed("mkfs") /\ child.mkfs.code = Num(0))

\* C2: whenever the builder is spawned, end > start and start, end, page size
\* and block size are strictly positive, so the size argument is positive.
C2_LayoutPositiveAtBuild ==
    HasSpawned("mkfs") =>
        /\ \A v \in {loc.fsStart, loc.fsEnd, loc.page, loc.blocksize} : IsNum(v) /\ v[2] > 0
        /\ loc.fsEnd[2] > loc.fsStart[2]
        /\ JsSub(loc.fsEnd, loc.fsStart)[2] > 0

\* The board metadata, read directly: the family, the selected sizing values and
\* the properties of the one that counts.

SupportedFamily(c) == FamilySegment(c.fqbn) \in {<<"rp2040">>, <<"esp8266">>}

RECURSIVE SizingItems(_, _)
\* The values of every option called name, in sequence order.
SizingItems(opts, name) ==
    IF opts = <<>> THEN <<>>
    ELSE (IF Head(opts).option = name THEN Head(opts).values ELSE <<>>)
         \o SizingItems(Tail(opts), name)

IsSelected(itm) == itm.selected

\* The selected values of the family's sizing option.
SelectedSizing(c) == SelectSeq(SizingItems(c.configOptions, OptSeek(IsPico(c.fqbn))), IsSelected)

\* The text of a build property of the selected sizing value that counts.
SizingText(c, name) ==
    LET sel == SelectedSizing(c)
    IN  PropGet(c.buildProperties, MenuStr(IsPico(c.fqbn), sel[Len(sel)].value) \o <<name>>)

MissingOrZero(text) == text = Undefined \/ JsNumber(text) = Num(0)

\* The conditions of C3: no selected sizing value, a lookup that is missing or
\* zero, or end <= start.
Unconfigured(c) ==
    \/ SelectedSizing(c) = <<>>
    \/ MissingOrZero(SizingText(c, StartMarker(IsPico(c.fqbn))))
    \/ MissingOrZero(SizingText(c, EndMarker(IsPico(c.fqbn))))
    \/ ~IsPico(c.fqbn) /\ MissingOrZero(SizingText(c, "spiffs_pagesize"))
    \/ ~IsPico(c.fqbn) /\ MissingOrZero(SizingText(c, "spiffs_blocksize"))
    \/ JsLeq(JsNumber(SizingText(c, EndMarker(IsPico(c.fqbn)))),
             JsNumber(SizingText(c, StartMarker(IsPico(c.fqbn)))))

\* The run got as far as the geometry: metadata present, data folder there,
\* family supported.
ReachesGeometry(c) ==
    c.boardDetails /\ c.fqbn # Undefined /\ c.dataExists /\ SupportedFamily(c)

NothingSpawned == ~HasSpawned("mkfs") /\ ~HasSpawned("upld")

\* C3: for either family, with no selected sizing value, or a start, end, page
\* or block lookup missing or zero, or end <= start, the run ends with
\* MissingFilesystemConfig and spawns neither process.
C3_UnconfiguredRejected ==
    (ReachesGeometry(ctx) /\ Unconfigured(ctx))
        => /\ NothingSpawned
           /\ pc = "done" => RunErrors = <<"MissingFilesystemConfig">>

\* Witness of C3: a run ended on a selected value whose lookups are all there and
\* non-zero but whose end is not above its start.
C3_Witness ==
    /\ pc = "done" /\ ReachesGeometry(ctx) /\ SelectedSizing(ctx) # <<>>
    /\ ~MissingOrZero(SizingText(ctx, StartMarker(IsPico(ctx.fqbn))))
    /\ ~MissingOrZero(SizingText(ctx, EndMarker(IsPico(ctx.fqbn))))
    /\ JsLeq(JsNumber(SizingText(ctx, EndMarker(IsPico(ctx.fqbn)))),
             JsNumber(SizingText(ctx, StartMarker(IsPico(ctx.fqbn)))))
    /\ RunErrors = <<"MissingFilesystemConfig">>

\* The run has scanned configOptions (lines 108-134).
Scanned == \E i \in DOMAIN hist.steps : hist.steps[i] = "geometry"

\* C4: a board identifier whose second segment is neither rp2040 nor esp8266
\* (or is missing) ends the run with UnsupportedBoard; no configuration option
\* is scanned, no tool is located and no process is spawned.
C4_UnsupportedBoardStops ==
    (ctx.boardDetails /\ ctx.fqbn # Undefined /\ ctx.dataExists /\ ~SupportedFamily(ctx))
        => /\ ~Scanned /\ hist.tools = <<>> /\ NothingSpawned
           /\ pc = "done" => RunErrors = <<"UnsupportedBoard">>

\* Witness of C4: a run ended on a board identifier with no second segment.
C4_Witness ==
    /\ pc = "done" /\ ctx.boardDetails /\ ctx.dataExists
    /\ ctx.fqbn = <<"vendor">>
    /\ RunErrors = <<"UnsupportedBoard">>

\* C5: with board metadata present and no data folder, the run aborts before
\* any tool is located or process spawned, with exactly one error message.
C5_NoDataFolderStops ==
    (ctx.boardDetails /\ ctx.fqbn # Undefined /\ ~ctx.dataExists)
        => /\ hist.tools = <<>> /\ NothingSpawned
           /\ Len(RunErrors) <= 1
           /\ pc = "done" => RunErrors = <<"MissingDataFolder">>

\* Witness of C5: a run ended with no data folder, on a board that is otherwise fit.
C5_Witness ==
    /\ pc = "done" /\ ctx.boardDetails /\ ~ctx.dataExists
    /\ SupportedFamily(ctx) /\ ~Unconfigured(ctx) /\ ctx.port = SerialPort
    /\ RunErrors = <<"MissingDataFolder">>

BadPort(c) == ~(c.port.present /\ c.port.hasAddress) \/ c.port.protocol # "serial"

\* C6 as stated: with no port address or a port that is not serial, the run
\* ends with UnsupportedPort and spawns nothing, whatever the family and the
\* geometry are.
C6_Original ==
    (ctx.boardDetails /\ ctx.fqbn # Undefined /\ ctx.dataExists /\ BadPort(ctx))
        => /\ NothingSpawned
           /\ pc = "done" => RunErrors = <<"UnsupportedPort">>

\* The selected sizing value passes line 135: every lookup is a number other
\* than 0 and the end is above the start.
GeometryAccepted(c) ==
    /\ SelectedSizing(c) # <<>>
    /\ Truthy(JsNumber(SizingText(c, StartMarker(IsPico(c.fqbn)))))
    /\ Truthy(JsNumber(SizingText(c, EndMarker(IsPico(c.fqbn)))))
    /\ IsPico(c.fqbn) \/ Truthy(JsNumber(SizingText(c, "spiffs_pagesize")))
    /\ IsPico(c.fqbn) \/ Truthy(JsNumber(SizingText(c, "spiffs_blocksize")))
    /\ ~JsLeq(JsNumber(SizingText(c, EndMarker(IsPico(c.fqbn)))),
              JsNumber(SizingText(c, StartMarker(IsPico(c.fqbn)))))

\* C6, amended: with no port address or a port that is not serial, nothing is
\* spawned whatever the family and the geometry are, and the run ends with
\* UnsupportedPort when the family is supported and the geometry is accepted.
C6_BadPortStops ==
    (ctx.boardDetails /\ ctx.fqbn # Undefined /\ ctx.dataExists /\ BadPort(ctx))
        => /\ NothingSpawned
           /\ (pc = "done" /\ SupportedFamily(ctx) /\ GeometryAccepted(ctx))
                 => RunErrors = <<"UnsupportedPort">>

\* Witness of C6: a run ended on a port that has an address but is not serial.
C6_Witness ==
    /\ pc = "done" /\ ctx.boardDetails /\ ctx.dataExists
    /\ SupportedFamily(ctx) /\ GeometryAccepted(ctx)
    /\ ctx.port.present /\ ctx.port.hasAddress /\ ctx.port.protocol # "serial"
    /\ RunErrors = <<"UnsupportedPort">>

\* The stage of section 4.6 each step of the handler belongs to.
StageOf(step) ==
    CASE step \in {"boardDetails", "writerReady", "dataFolder"} -> "ValidatePreconditions"
      [] step \in {"family", "geometry", "port"} -> "ResolveConfiguration"
      [] step \in {"findMklittlefs", "findPython3", "findPlatform"} -> "LocateTools"
      [] step \in {"tmpName", "build"} -> "BuildImage"
      [] step = "upload" -> "UploadImage"
      [] step = "success" -> "ReportSuccess"

RECURSIVE Stages(_)
\* The stages a sequence of steps enters: a new entry whenever the stage changes.
Stages(steps) ==
    IF steps = <<>> THEN <<>>
    ELSE LET rest == Stages(Tail(steps))
         IN  IF rest # <<>> /\ rest[1] = StageOf(Head(steps)) THEN rest
             ELSE <<StageOf(Head(steps))>> \o rest

StageOrder == <<"ValidatePreconditions", "ResolveConfiguration", "LocateTools",
                "BuildImage", "UploadImage", "ReportSuccess">>

\* C7: the stages a run enters are a prefix of ValidatePreconditions,
\* ResolveConfiguration, LocateTools, BuildImage, UploadImage, ReportSuccess,
\* none entered twice and none before the earlier ones succeeded: no tool is
\* located before the serial port is validated, and the upload is entered only
\* after a build that exited with code 0.
C7_StagesInOrder ==
    /\ StartsWith(StageOrder, Stages(hist.steps))
    /\ HasSpawned("upld") => child.mkfs.code = Num(0)

\* The handler is suspended on child p: draining a stream or awaiting 'close'.
WaitingOn(p) == pc \in {PcOut(p), PcErr(p), PcClose(p)}

\* A step that moves child p or the handler's wait on it forward: the child
\* writing, closing a stream or exiting, Node's events, the handler's loops.
Progress(p) ==
    \/ \E ch \in Channels, c \in Chunks : ProcWrite(p, ch, c)
    \/ ProcUnblock(p)
    \/ \E ch \in Channels : ProcCloseStream(p, ch)
    \/ \E code \in 0..MaxExit : ProcExit(p, code)
    \/ NodeExit(p)
    \/ NodeClose(p)
    \/ \E ch \in Channels : RunRead(p, ch)
    \/ RunOutEnd(p)
    \/ RunErrEnd(p)

\* C8: a run waiting on a launched child never waits forever, whatever the child
\* writes through its bounded pipes: the child or the handler can always take
\* another step towards the exit code.
C8_NeverWaitsForever ==
    \A p \in Procs :
        (WaitingOn(p) /\ child[p].st \in {"running", "exited"}) => ENABLED Progress(p)

\* C9: once the run has left a process stage, every chunk the process wrote to
\* its standard output and its standard error has been forwarded to the sink.
C9_AllOutputForwarded ==
    \A p \in Procs :
        Resumed(p) => \A ch \in Channels : child[p].fwd[ch] = child[p].wrote[ch]

\* C10: a builder or interpreter that cannot be launched ends the run with a
\* SpawnFailure error; the run never reports success, and no uploader is spawned
\* after a builder that failed to launch.
C10_SpawnFailureReported ==
    \A p \in Procs :
        child[p].st = "failed" =>
            /\ ~Fired(MsgCompleted)
            /\ p = "mkfs" => ~HasSpawned("upld")
            /\ child[p].exitSeen => \E i \in DOMAIN RunErrors : RunErrors[i] = "SpawnFailure"

\* The run reached BuildImage: it drew an image name and spawned the builder.
ReachedBuild == HasSpawned("mkfs")

\* The run has ended: the handler returned.
Ended == pc = "done"

\* C11: when a run that reached BuildImage has ended, in BuildFailure, in
\* UploadFailure or in success, its image file is gone from the temporary
\* directory or is tracked by tmp for removal.
C11_ImageRemovedOrTracked ==
    (Ended /\ ReachedBuild) =>
        (loc.imageFile \notin disk.files \/ loc.imageFile \in disk.tracked)

\* ------------------------------------------------- overlapping invocations

\* The second invocation runs lines 72-189 with outcome r: it fires to the same
\* terminal.  It is followed up to its first suspension on a child of its own.
EnterOther(r) ==
    /\ other' = [pc |-> r.pc, emitted |-> r.emit, spawned |-> r.spawn]
    /\ sink' = Fire(sink, r.emit)
    /\ disk' = IF r.spawn THEN [disk EXCEPT !.graceful = TRUE] ELSE disk

ProceedOther == \E tmpName \in FreshNames(disk) : EnterOther(MainSegment(ctx, tmpName))

\* The command is triggered again (lines 57-70) while the first run is suspended:
\* registerCommand calls the handler anew, and nothing in it looks at the run in
\* flight.  The board check passes, as it did for the first run.
InvokeAgain ==
    /\ pc \notin {"idle", "done"}
    /\ other.pc = "none"
    /\ ctx.boardDetails /\ ctx.fqbn # Undefined
    /\ UNCHANGED <<ctx, writerReady, pc, loc, hist, child>>
    /\ IF ~writerReady
       THEN other' = [other EXCEPT !.pc = "poll"] /\ UNCHANGED <<sink, disk>>
       ELSE ProceedOther

\* The second invocation's 100 ms timer fires (lines 68-70).
PollAgain ==
    /\ other.pc = "poll"
    /\ UNCHANGED <<ctx, writerReady, pc, loc, hist, child>>
    /\ IF writerReady THEN ProceedOther
       ELSE UNCHANGED <<sink, disk, other>>

\* Inputs of the overlap specification: the pipeline inputs whose run reaches the
\* build, and those that stop at the family switch.
OverlapCtx ==
    {c \in CoreCtx : /\ c.boardDetails /\ c.fqbn # Undefined /\ c.dataExists
                     /\ c.port = SerialPort
                     /\ SupportedFamily(c) => (IsPico(c.fqbn) /\ GeometryAccepted(c))}

InitOverlap ==
    /\ ctx \in OverlapCtx
    /\ writerReady = FALSE
    /\ pc = "idle"
    /\ loc = InitLoc
    /\ sink = <<>>
    /\ hist = NoHist
    /\ child = NoChildren
    /\ disk = NoDisk
    /\ other = NoOther

NextOverlap ==
    \/ Next
    \/ InvokeAgain
    \/ PollAgain

\* The program with the command triggered a second time during a run.
SpecOverlap == InitOverlap /\ [][NextOverlap]_vars

\* The first run is in flight: started and not ended.
InFlight == pc \notin {"idle", "done"}

\* C12: while a run is in flight a second request executes no stage: it emits
\* nothing to the sink and spawns nothing until the first run has ended.
C12_OneRunAtATime ==
    [][InFlight => (other'.emitted = other.emitted /\ other'.spawned = other.spawned)]_vars

\* The run reported success: the closing message and the information popup.
Succeeded ==
    /\ Fired(MsgCompleted)
    /\ \E i \in DOMAIN hist.popups : hist.popups[i] = PopupCompleted

NoSuccessReport ==
    /\ ~Fired(MsgCompleted)
    /\ \A i \in DOMAIN hist.popups : hist.popups[i] # PopupCompleted

\* An ended run has one error message and no success report, or the success
\* report and no error message.
OneOutcome ==
    Ended => \/ Len(RunErrors) = 1 /\ NoSuccessReport
             \/ RunErrors = <<>> /\ Succeeded

\* After its error message a run does nothing more: the only step that changes
\* the handler, the sink, the children or the disk is a new trigger of the command.
QuietAfterError ==
    (Ended /\ RunErrors # <<>>) => (Invoke \/ UNCHANGED <<pc, loc, sink, hist, child, disk>>)

\* C13: every run that ends has produced exactly one error message and no
\* success report, or the success report and no error message; after its error
\* message the run emits nothing, looks up no tool, spawns nothing and does not
\* start again by itself.
C13_OneOutcomeThenQuiet == []OneOutcome /\ [][QuietAfterError]_vars

\* Witness of C13: a run that went through the build and ended in UploadFailure.
C13_Witness ==
    /\ Ended /\ Resumed("mkfs") /\ Resumed("upld")
    /\ RunErrors = <<"UploadFailure">> /\ NoSuccessReport

\* The number a build property of the sizing value that counts stands for.
SizingNumber(c, name) == JsNumber(SizingText(c, name))

\* The page and block sizes of the claim: fixed for rp2040, the spiffs_pagesize
\* and spiffs_blocksize properties of the selected eesz value for esp8266.
PageOf(c) == IF IsPico(c.fqbn) THEN Num(256) ELSE SizingNumber(c, "spiffs_pagesize")
BlockOf(c) == IF IsPico(c.fqbn) THEN Num(4096) ELSE SizingNumber(c, "spiffs_blocksize")
StartOf(c) == SizingNumber(c, StartMarker(IsPico(c.fqbn)))
EndOf(c) == SizingNumber(c, EndMarker(IsPico(c.fqbn)))

\* -c <dataFolder> -p <pageSize> -b <blockSize> -s <end - start> <image>
BuilderArgs(c, image) ==
    << <<"-c">>, c.sketchPath \o <<"/data">>,
       <<"-p">>, StringOfNumber(PageOf(c)),
       <<"-b">>, StringOfNumber(BlockOf(c)),
       <<"-s">>, StringOfNumber(Num(EndOf(c)[2] - StartOf(c)[2])),
       image >>

\* C14: for both families the builder is spawned with the arguments
\* -c <dataFolder> -p <pageSize> -b <blockSize> -s <end - start> <image>; the
\* page and block sizes are 256 and 4096 for rp2040 whatever the build
\* properties say, and the spiffs_pagesize and spiffs_blocksize properties of the
\* selected eesz value for esp8266.
C14_BuilderArguments ==
    HasSpawned("mkfs") =>
        /\ loc.imageFile \in {ImageName(n) : n \in TmpNames}
        /\ child.mkfs.args = BuilderArgs(ctx, loc.imageFile)
        /\ loc.buildOpts = child.mkfs.args

\* Witness of C14: the builder spawned for an rp2040 board whose selected flash
\* value carries a spiffs_pagesize property of 0, with -p 256 -b 4096.
C14_Witness ==
    /\ HasSpawned("mkfs") /\ IsPico(ctx.fqbn)
    /\ SizingText(ctx, "spiffs_pagesize") = <<"0">>
    /\ SubSeq(child.mkfs.args, 3, 6) = << <<"-p">>, <<"2", "5", "6">>,
                                          <<"-b">>, <<"4", "0", "9", "6">> >>

\* The selected values of the baud option, in sequence order.
SelectedBaud(c) == SelectSeq(SizingItems(c.configOptions, "baud"), IsSelected)

\* The baud of the claim: the selected value of the baud option, or 115200.
BaudOf(c) ==
    IF SelectedBaud(c) = <<>> THEN Num(115200)
    ELSE JsNumber(SelectedBaud(c)[Len(SelectedBaud(c))].value)

\* The uploader's arguments after the script, for port address port and image.
UploaderArgs(c, port, image) ==
    IF IsPico(c.fqbn)
    THEN << <<"--base">>, StringOfNumber(StartOf(c)), <<"--serial">>, port,
            <<"--family">>, <<"RP2040">>, image >>
    ELSE << <<"--chip">>, <<"esp8266">>, <<"--port">>, port,
            <<"--baud">>, StringOfNumber(BaudOf(c)), <<"write_flash">>,
            StringOfNumber(StartOf(c)), image >>

ScriptOf(c) == IF IsPico(c.fqbn) THEN "tools/uf2conv.py" ELSE "tools/upload.py"

\* C15: the uploader is spawned with <uf2conv script> --base <start> --serial
\* <port> --family RP2040 <image> for rp2040, and with <upload script> --chip
\* esp8266 --port <port> --baud <baud> write_flash <start> <image> for esp8266:
\* <start> is the start of the layout the builder's size came from, <image> the
\* builder's output, <port> the validated port address, <baud> the selected baud
\* value or 115200; the rp2040 vector carries no baud.
C15_UploaderArguments ==
    HasSpawned("upld") =>
        /\ child.upld.args[1][Len(child.upld.args[1])] = ScriptOf(ctx)
        /\ Tail(child.upld.args)
             = UploaderArgs(ctx, ctx.port.address,
                            child.mkfs.args[Len(child.mkfs.args)])
        /\ child.mkfs.args[8] = StringOfNumber(Num(EndOf(ctx)[2] - StartOf(ctx)[2]))
        /\ ctx.port.hasAddress /\ ctx.port.protocol = "serial"
        /\ IsPico(ctx.fqbn) => \A i \in DOMAIN child.upld.args :
                                  child.upld.args[i] # <<"--baud">>

\* Witness of C15: the uploader spawned for an esp8266 board with a baud option
\* none of whose values is selected, with --baud 115200.
C15_Witness ==
    /\ HasSpawned("upld") /\ ~IsPico(ctx.fqbn)
    /\ SizingItems(ctx.configOptions, "baud") # <<>> /\ SelectedBaud(ctx) = <<>>
    /\ SubSeq(child.upld.args, 6, 7) = << <<"--baud">>, <<"1", "1", "5", "2", "0", "0">> >>

\* A chunk of child p has arrived on channel ch and waits to be forwarded.
Arrived(p, ch) == WaitingOn(p) /\ child[p].st = "running" /\ child[p].pipe[ch] # <<>>

\* C16: while a spawned process runs, a chunk that has arrived on either channel
\* can be forwarded to the sink at once: a standard-error chunk does not have
\* to wait for the standard-output channel to end.
C16_ForwardedAsTheyArrive ==
    \A p \in Procs, ch \in Channels : Arrived(p, ch) => ENABLED RunRead(p, ch)

\* The positions of the keys that start with prefix and have a defined value.
Matching(props, prefix) ==
    {i \in DOMAIN props : StartsWith(props[i].key, prefix) /\ props[i].val # Undefined}

\* The value of the first such key in the order of the metadata, or absent.
FirstMatch(props, prefix) ==
    IF Matching(props, prefix) = {} THEN Undefined
    ELSE props[CHOOSE i \in Matching(props, prefix) :
                 \A j \in Matching(props, prefix) : i <= j].val

\* The prefixes the handler looks up.
Prefixes == {PrefixMklittlefs(TRUE), PrefixMklittlefs(FALSE),
             PrefixPython3(TRUE), PrefixPython3(FALSE), PrefixPlatform}

\* findTool returns the first match, and absent without board details.
FindToolFirst ==
    \A prefix \in Prefixes :
        /\ findTool([ctx EXCEPT !.boardDetails = TRUE], prefix)
             = FirstMatch(ctx.buildProperties, prefix)
        /\ findTool([ctx EXCEPT !.boardDetails = FALSE], prefix) = Undefined

\* The bare executable name with the platform suffix.
Bare(c, name) == <<name>> \o (IF c.platform = "win32" THEN <<".exe">> ELSE <<>>)

\* The run has made the step of that name.
Stepped(step) == \E i \in DOMAIN hist.steps : hist.steps[i] = step

\* The paths the caller has built are those that `absent` yields for each tool.
PathsBuilt(absent) ==
    /\ Stepped("findMklittlefs") =>
         loc.mklittlefs =
            IF FirstMatch(ctx.buildProperties, PrefixMklittlefs(IsPico(ctx.fqbn))) \in absent
            THEN Bare(ctx, "mklittlefs")
            ELSE FirstMatch(ctx.buildProperties, PrefixMklittlefs(IsPico(ctx.fqbn)))
                 \o <<"/">> \o Bare(ctx, "mklittlefs")
    /\ Stepped("findPython3") =>
         loc.python3 =
            IF FirstMatch(ctx.buildProperties, PrefixPython3(IsPico(ctx.fqbn))) \in absent
            THEN Bare(ctx, "python3")
            ELSE FirstMatch(ctx.buildProperties, PrefixPython3(IsPico(ctx.fqbn)))
                 \o <<"/">> \o Bare(ctx, "python3")

\* C17 as stated: findTool returns the value of the first key that starts with
\* the prefix and has a defined value, absent when there is none or no board
\* details; the caller uses the bare name plus suffix when the result is absent
\* and <directory>/<bare name plus suffix> otherwise.
C17_Original == FindToolFirst /\ PathsBuilt({Undefined})

\* C17, amended: the same, the caller using the bare name plus suffix when the
\* result is absent or the empty string.
C17_FirstMatchingTool == FindToolFirst /\ PathsBuilt({Undefined, <<>>})

\* Witness of C17: on win32, with two matching keys per tool, the paths built
\* from the first key's directory.
C17_Witness ==
    /\ Stepped("findPython3") /\ ctx.platform = "win32"
    /\ ctx.buildProperties = GeomProps(IsPico(ctx.fqbn), <<"a">>, GeomOk)
                             \o Tools(<<"/first">>, <<"/second">>)
    /\ loc.mklittlefs = <<"/first", "/", "mklittlefs", ".exe">>
    /\ loc.python3 = <<"/first", "/", "python3", ".exe">>

RECURSIVE BareLFRewritten(_, _)
\* s with each bare line feed rewritten to CR LF, prev being the character
\* before s: a line feed that follows a carriage return is left as it is.
BareLFRewritten(s, prev) ==
    IF s = <<>> THEN <<>>
    ELSE (IF Head(s) = "\n" /\ prev # "\r" THEN <<"\r", "\n">> ELSE <<Head(s)>>)
         \o BareLFRewritten(Tail(s), Head(s))

\* C18: every chunk forwarded to the sink is the process's chunk with each bare
\* line feed rewritten to CR LF and nothing else changed: a line feed already
\* preceded by a carriage return gets no second one; for both channels of both
\* processes.
C18_OnlyBareLineFeeds ==
    \A p \in Procs, ch \in Channels :
        \A i \in DOMAIN child[p].fwd[ch] :
            /\ WaitingOn(p) => Fired(Forwarded(child[p].fwd[ch][i]))
            /\ Forwarded(child[p].fwd[ch][i]).text
                 = BareLFRewritten(child[p].fwd[ch][i], "")

\* C19: after the configOptions scan the four geometry fields are those of one
\* and the same selected value of the sizing option, the last selected one in
\* sequence order over every occurrence of the option (all zero when none is
\* selected), and the baud is that of the last selected baud value.
C19_LastSelectedWins ==
    Scanned =>
        /\ SelectedSizing(ctx) = <<>> =>
              /\ loc.fsStart = Num(0) /\ loc.fsEnd = Num(0)
              /\ loc.page = Num(0) /\ loc.blocksize = Num(0)
        /\ SelectedSizing(ctx) # <<>> =>
              /\ loc.fsStart = StartOf(ctx) /\ loc.fsEnd = EndOf(ctx)
              /\ loc.page = PageOf(ctx) /\ loc.blocksize = BlockOf(ctx)
        /\ loc.uploadSpeed = BaudOf(ctx)

\* Witness of C19: a scan over a sizing option that occurs twice, with two
\* selected values of different start addresses, that left the second one's.
C19_Witness ==
    /\ Scanned /\ Len(ctx.configOptions) = 3 /\ Len(SelectedSizing(ctx)) = 2
    /\ PropGet(ctx.buildProperties,
               MenuStr(IsPico(ctx.fqbn), <<"a">>) \o <<StartMarker(IsPico(ctx.fqbn))>>)
         = <<"0", "x", "1", "0">>
    /\ StartOf(ctx) = Num(-16) /\ loc.fsStart = Num(-16)

\* Board metadata is there: the check of line 62 passes.
HasMetadata(c) == c.boardDetails /\ c.fqbn # Undefined

\* A run in its polling loop has emitted nothing, checked nothing further and
\* spawned nothing; only a run with board metadata gets there.
NothingWhilePolling ==
    pc = "poll" =>
        /\ HasMetadata(ctx)
        /\ hist = [NoHist EXCEPT !.steps = <<"boardDetails">>]
        /\ NothingSpawned

\* A run past its readiness wait has the clear sequence and the banner as its
\* first output, once.
ClearAndBannerFirst ==
    PastReady =>
        /\ Len(sink) >= 2 /\ sink[1] = ClearSeq /\ sink[2] = Banner
        /\ \A i \in 3..Len(sink) : sink[i] # ClearSeq /\ sink[i] # Banner

\* A run without board metadata has ended with its error, whatever the flag is.
NoMetadataNoWait ==
    (~HasMetadata(ctx) /\ pc # "idle") =>
        /\ Ended /\ ~PastReady
        /\ RunErrors = <<"MissingBoardDetails">>

\* A run's steps while it waits: with the flag false a polling run stays in its
\* loop and changes nothing; it leaves the loop only with the flag true; a
\* trigger with metadata and the flag false enters the loop and emits nothing.
WaitsForReady ==
    /\ (pc = "poll" /\ ~writerReady) =>
          (pc' = "poll" /\ UNCHANGED <<loc, sink, hist, child, disk>>)
    /\ (pc = "poll" /\ pc' # "poll") => (writerReady /\ PastReady')
    /\ (pc # "poll" /\ pc' = "poll") => (~writerReady /\ sink' = sink)
    /\ (~PastReady /\ PastReady') => writerReady

====
